---- MODULE Spec2Model ----
(***************************************************************************)
(* Model of the chart widget (custom_legend_chart.rs) and of the CPU       *)
(* legend table (cpu_graph.rs).                                            *)
(*                                                                         *)
(* Strings are represented by their displayed width (Span::width), an      *)
(* Option<T> by a sequence of length at most one (None == <<>>,            *)
(* Some(v) == <<v>>), a Rect by a record [x, y, width, height].            *)
(***************************************************************************)
EXTENDS Integers, Sequences, FiniteSets, TLC

\* ------------------------------------------------------------------ bounds

\* Largest width / height of the area handed to Chart::render.
MaxW == 6
MaxH == 7

\* Largest number of CPU rows, largest width and height of the CPU legend and
\* largest width of the disk table.
MaxCpus == 3
MaxLegendW == 18
MaxLegendH == 7
MaxDiskW == 41

\* Largest width and column count of a table with columns of any kind.
MaxTableW == 9
MaxColumns == 3

\* Largest number of colour styles of the theme.
MaxStyles == 3

\* Origins (left, top) of the area inside the terminal buffer.
Origins == {<<0, 0>>, <<1, 1>>, <<0, 2>>}

\* ------------------------------------------------------------- primitives

None == <<>>
Some(v) == <<v>>
IsSome(o) == Len(o) = 1
Unwrap(o) == o[1]

Max2(a, b) == IF a >= b THEN a ELSE b
Min2(a, b) == IF a <= b THEN a ELSE b

RECURSIVE MaxOfSeq(_)
\* Iterator::max().unwrap_or_default() over widths: 0 for an empty list.
MaxOfSeq(s) == IF s = <<>> THEN 0 ELSE Max2(Head(s), MaxOfSeq(Tail(s)))

Rect(x, y, w, h) == [x |-> x, y |-> y, width |-> w, height |-> h]
ZeroRect == Rect(0, 0, 0, 0)
Left(r) == r.x
Right(r) == r.x + r.width
Top(r) == r.y
Bottom(r) == r.y + r.height
\* Rect::area, a u16 product.
RectArea(r) == (r.width * r.height) % 65536
SatSub(a, b) == IF a >= b THEN a - b ELSE 0

\* Constraint::Ratio(num, den).apply(length): num * length / den, rounded down.
RatioApply(c, length) == (c[1] * length) \div c[2]

\* ------------------------------------------------------------------ chart

DefaultAxis == [labels |-> None, title |-> None, bounds |-> <<0, 0>>]

\* Chart::new
NewChart(datasets) ==
    [ x_axis |-> DefaultAxis,
      y_axis |-> DefaultAxis,
      datasets |-> datasets,
      hidden_legend_constraints |-> << <<1, 4>>, <<1, 4>> >> ]

\* ChartLayout::default()
DefaultLayout ==
    [ title_x |-> None, title_y |-> None,
      label_x |-> None, label_y |-> None,
      axis_x |-> None, axis_y |-> None,
      legend_area |-> None,
      graph_area |-> ZeroRect ]

\* Chart::max_width_of_labels_left_of_y_axis
LabelStripUncapped(c, area) ==
    LET yw == IF IsSome(c.y_axis.labels) THEN MaxOfSeq(Unwrap(c.y_axis.labels)) ELSE 0
        xw == IF IsSome(c.x_axis.labels) /\ Unwrap(c.x_axis.labels) # <<>>
              THEN Max2(yw, Unwrap(c.x_axis.labels)[1])
              ELSE yw
    IN  xw
max_width_of_labels_left_of_y_axis(c, area) ==
    LET yw == IF IsSome(c.y_axis.labels) THEN MaxOfSeq(Unwrap(c.y_axis.labels)) ELSE 0
        xw == IF IsSome(c.x_axis.labels) /\ Unwrap(c.x_axis.labels) # <<>>
              THEN Max2(yw, Unwrap(c.x_axis.labels)[1])
              ELSE yw
    IN  Min2(xw, area.width \div 3)

\* Lines 98-100 of Chart::layout: what is left at the cursor (x, y).
GraphAreaTall(area, x, y) ==
    IF x < Right(area) /\ y > 1
    THEN Rect(x, Top(area), Right(area) - x, y - Top(area) + 2)
    ELSE ZeroRect
GraphAreaOf(area, x, y) ==
    IF x < Right(area) /\ y > 1
    THEN Rect(x, Top(area), Right(area) - x, y - Top(area) + 1)
    ELSE ZeroRect

\* Lines 77-100 of Chart::layout: the label rows/columns, the tick lines and
\* the graph area.  Returns the layout so far and the cursor (x, y).
LayoutAxes(c, area) ==
    LET x0 == Left(area)
        y0 == Bottom(area) - 1
        hasX == IsSome(c.x_axis.labels)
        hasY == IsSome(c.y_axis.labels)
        lx == hasX /\ y0 > Top(area)
        y1 == IF lx THEN y0 - 1 ELSE y0
        x1 == x0 + max_width_of_labels_left_of_y_axis(c, area)
        ax == hasX /\ y1 > Top(area)
        y2 == IF ax THEN y1 - 1 ELSE y1
        ay == hasY /\ x1 + 1 < Right(area)
        x2 == IF ay THEN x1 + 1 ELSE x1
    IN  [ label_x |-> IF lx THEN Some(y0) ELSE None,
          label_y |-> IF hasY THEN Some(x0) ELSE None,
          axis_x |-> IF ax THEN Some(y1) ELSE None,
          axis_y |-> IF ay THEN Some(x1) ELSE None,
          graph_area |-> GraphAreaOf(area, x2, y2),
          x |-> x2, y |-> y2 ]

\* Lines 102-107 of Chart::layout.
TitleXLoose(c, g, x, y) ==
    IF IsSome(c.x_axis.title)
       /\ Unwrap(c.x_axis.title) <= g.width /\ g.height > 2
    THEN Some(<<x + g.width - Unwrap(c.x_axis.title), y>>)
    ELSE None
TitleX(c, g, x, y) ==
    IF IsSome(c.x_axis.title)
       /\ Unwrap(c.x_axis.title) < g.width /\ g.height > 2
    THEN Some(<<x + g.width - Unwrap(c.x_axis.title), y>>)
    ELSE None

\* Lines 109-114 of Chart::layout.
TitleYLikeX(c, g, x, top) ==
    IF IsSome(c.y_axis.title)
       /\ Unwrap(c.y_axis.title) < g.width /\ g.height > 2
    THEN Some(<<x, top>>)
    ELSE None
TitleY(c, g, x, top) ==
    IF IsSome(c.y_axis.title)
       /\ Unwrap(c.y_axis.title) + 1 < g.width /\ g.height > 2
    THEN Some(<<x, top>>)
    ELSE None

RECURSIVE NameWidths(_)
NameWidths(ds) == IF ds = <<>> THEN <<>> ELSE <<Head(ds).name>> \o NameWidths(Tail(ds))

\* Lines 116-138 of Chart::layout: the legend box for a given graph area.
LegendAreaLoose(ds, cons, g) ==
    IF ds = <<>> THEN None
    ELSE LET inner_width == MaxOfSeq(NameWidths(ds))
             legend_width == inner_width + 2
             legend_height == Len(ds) + 2
         IN  IF inner_width > 0
                /\ legend_width <= RatioApply(cons[1], g.width)
                /\ legend_height <= RatioApply(cons[2], g.height)
             THEN Some(Rect(Right(g) - legend_width, Top(g), legend_width, legend_height))
             ELSE None
LegendAreaFlipped(ds, cons, g) ==
    IF ds = <<>> THEN None
    ELSE LET inner_width == MaxOfSeq(NameWidths(ds))
             legend_width == inner_width + 2
             legend_height == Len(ds) + 2
         IN  IF inner_width > 0
                /\ legend_width > RatioApply(cons[1], g.width)
                /\ legend_height > RatioApply(cons[2], g.height)
             THEN Some(Rect(Right(g) - legend_width, Top(g), legend_width, legend_height))
             ELSE None
LegendArea(ds, cons, g) ==
    IF ds = <<>> THEN None
    ELSE LET inner_width == MaxOfSeq(NameWidths(ds))
             legend_width == inner_width + 2
             legend_height == Len(ds) + 2
             max_legend_width == RatioApply(cons[1], g.width)
             max_legend_height == RatioApply(cons[2], g.height)
         IN  IF inner_width > 0
                /\ legend_width < max_legend_width
                /\ legend_height < max_legend_height
             THEN Some(Rect(Right(g) - legend_width, Top(g), legend_width, legend_height))
             ELSE None

\* Lines 102-139 of Chart::layout: titles and legend, given the axes part a.
LayoutRest(c, area, a) ==
    [ title_x |-> TitleX(c, a.graph_area, a.x, a.y),
      title_y |-> TitleY(c, a.graph_area, a.x, Top(area)),
      label_x |-> a.label_x,
      label_y |-> a.label_y,
      axis_x |-> a.axis_x,
      axis_y |-> a.axis_y,
      legend_area |-> LegendArea(c.datasets, c.hidden_legend_constraints, a.graph_area),
      graph_area |-> a.graph_area ]

\* Chart::layout
LayoutNoEmptyCheck(c, area) == LayoutRest(c, area, LayoutAxes(c, area))
Layout(c, area) ==
    IF area.height = 0 \/ area.width = 0 THEN DefaultLayout
    ELSE LayoutRest(c, area, LayoutAxes(c, area))

\* ------------------------------------------------------------- the buffer

\* The terminal buffer covers every area the model hands to render.
BufW == 1 + MaxW
BufH == 2 + MaxH
BufCells == (0 .. BufW - 1) \X (0 .. BufH - 1)
BlankBuf == [cell \in BufCells |-> " "]

\* One cell write: the render phase that made it (and for a dataset its index
\* in the dataset sequence, else 0), the cell and the symbol.
W(ph, x, y, sym) == [ph |-> ph, ds |-> 0, x |-> x, y |-> y, sym |-> sym]
WD(idx, x, y) == [ph |-> "datasets", ds |-> idx, x |-> x, y |-> y, sym |-> "o"]

\* Buffer::set_span / set_string: n cells of text from (x, y) rightwards.
TextRun(ph, x, y, n, sym) == [i \in 1 .. n |-> W(ph, x + i - 1, y, sym)]

RECURSIVE Flatten(_)
\* Concatenation of a sequence of sequences.
Flatten(ss) == IF ss = <<>> THEN <<>> ELSE Head(ss) \o Flatten(Tail(ss))

RECURSIVE ApplyWrites(_, _)
\* The buffer after the writes, in order: the last write of a cell wins.
ApplyWrites(buf0, ws) ==
    IF ws = <<>> THEN buf0
    ELSE ApplyWrites([buf0 EXCEPT ![<<Head(ws).x, Head(ws).y>>] = Head(ws).sym], Tail(ws))

InBuffer(ws) == \A i \in 1 .. Len(ws) : <<ws[i].x, ws[i].y>> \in BufCells

\* ------------------------------------------------------------- rendering

\* Chart::render_x_labels: the cells written (nothing with fewer than two labels).
render_x_labels(c, layout, chart_area, g) ==
    IF ~IsSome(layout.label_x) THEN <<>>
    ELSE LET y == Unwrap(layout.label_x)
             labels == Unwrap(c.x_axis.labels)
             labels_len == Len(labels)
         IN  IF labels_len < 2 THEN <<>>
             ELSE LET width_between_ticks == g.width \div (labels_len - 1)
                      lw(i) == IF i = 0
                               THEN Min2(SatSub(Left(g), Left(chart_area)), labels[i + 1])
                               ELSE Min2(width_between_ticks, labels[i + 1])
                  IN  Flatten([k \in 1 .. labels_len |->
                         TextRun("labels",
                                 Left(g) + (k - 1) * width_between_ticks - lw(k - 1),
                                 y, lw(k - 1), "x")])

\* Chart::render_y_labels: the cells written, or a panic: the loop divides by
\* labels_len - 1, which is zero for a single label.
render_y_labels(c, layout, chart_area, g) ==
    IF ~IsSome(layout.label_y) THEN [panic |-> FALSE, writes |-> <<>>]
    ELSE LET x == Unwrap(layout.label_y)
             labels == Unwrap(c.y_axis.labels)
             labels_len == Len(labels)
             label_width == SatSub(Left(g), Left(chart_area))
             dy(i) == (i * (g.height - 1)) \div (labels_len - 1)
         IN  IF labels_len = 0 THEN [panic |-> FALSE, writes |-> <<>>]
             ELSE IF labels_len - 1 = 0 THEN [panic |-> TRUE, writes |-> <<>>]
             ELSE [panic |-> FALSE,
                   writes |-> Flatten([k \in 1 .. labels_len |->
                                 IF dy(k - 1) < Bottom(g)
                                 THEN TextRun("labels", x, Bottom(g) - 1 - dy(k - 1),
                                              Min2(label_width, labels[k]), "y")
                                 ELSE <<>>])]

\* Lines 240-246 of Chart::render: the x tick line.
AxisXWrites(layout, g) ==
    IF IsSome(layout.axis_x)
    THEN [i \in 1 .. g.width |-> W("axis_x", Left(g) + i - 1, Unwrap(layout.axis_x), "-")]
    ELSE <<>>

\* Lines 248-254 of Chart::render: the y tick line.
AxisYWrites(layout, g) ==
    IF IsSome(layout.axis_y)
    THEN [i \in 1 .. g.height |-> W("axis_y", Unwrap(layout.axis_y), Top(g) + i - 1, "|")]
    ELSE <<>>

\* Lines 256-262 of Chart::render: the corner glyph.
CornerWrites(layout) ==
    IF IsSome(layout.axis_x) /\ IsSome(layout.axis_y)
    THEN <<W("corner", Unwrap(layout.axis_y), Unwrap(layout.axis_x), "L")>>
    ELSE <<>>

\* Lines 270-286 of Chart::render: what one dataset asks the canvas to draw:
\* its points, and for GraphType::Line one segment per window of two points.
DatasetDrawsNoSegments(d) ==
    <<[shape |-> "Points", coords |-> d.data]>>
DatasetDraws(d) ==
    <<[shape |-> "Points", coords |-> d.data]>>
    \o (IF d.graph_type = "Line"
        THEN [i \in 1 .. Len(d.data) - 1 |->
                 [shape |-> "Line", p1 |-> d.data[i], p2 |-> d.data[i + 1]]]
        ELSE <<>>)

\* The canvas' affine mapping of a data point to a cell of the graph area
\* (one cell per unit, Marker::Dot); None for a point outside the axis bounds.
GetPoint(c, g, p) ==
    LET xb == c.x_axis.bounds
        yb == c.y_axis.bounds
    IN  IF p[1] < xb[1] \/ p[1] > xb[2] \/ p[2] < yb[1] \/ p[2] > yb[2]
           \/ xb[2] = xb[1] \/ yb[2] = yb[1]
        THEN None
        ELSE Some(<<Left(g) + ((p[1] - xb[1]) * (g.width - 1)) \div (xb[2] - xb[1]),
                    Top(g) + ((yb[2] - p[2]) * (g.height - 1)) \div (yb[2] - yb[1])>>)

Abs(n) == IF n < 0 THEN -n ELSE n

\* The cells of a rasterized segment between two cells a and b (None: clipped).
SegmentWrites(idx, a, b) ==
    IF ~IsSome(a) \/ ~IsSome(b) THEN <<>>
    ELSE LET dx == Unwrap(b)[1] - Unwrap(a)[1]
             dy == Unwrap(b)[2] - Unwrap(a)[2]
             n == Max2(Abs(dx), Abs(dy))
         IN  IF n = 0 THEN <<WD(idx, Unwrap(a)[1], Unwrap(a)[2])>>
             ELSE [k \in 1 .. n + 1 |->
                     WD(idx, Unwrap(a)[1] + ((k - 1) * dx) \div n,
                        Unwrap(a)[2] + ((k - 1) * dy) \div n)]

\* The cell of one point mark (None: clipped).
PointWrites(idx, q) ==
    IF IsSome(q) THEN <<WD(idx, Unwrap(q)[1], Unwrap(q)[2])>> ELSE <<>>

\* The cells one draw command of dataset idx marks.
ShapeWrites(c, g, idx, sh) ==
    IF sh.shape = "Points"
    THEN Flatten([i \in 1 .. Len(sh.coords) |->
                     PointWrites(idx, GetPoint(c, g, sh.coords[i]))])
    ELSE SegmentWrites(idx, GetPoint(c, g, sh.p1), GetPoint(c, g, sh.p2))

\* The cells the draw commands ds of dataset idx mark, in order.
DrawsWrites(c, g, idx, ds) ==
    Flatten([j \in 1 .. Len(ds) |-> ShapeWrites(c, g, idx, ds[j])])

\* Lines 264-288 of Chart::render: every dataset, in sequence order.
DatasetWrites(c, g) ==
    Flatten([i \in 1 .. Len(c.datasets) |->
                DrawsWrites(c, g, i, DatasetDraws(c.datasets[i]))])

\* Block::default().borders(Borders::ALL).render(l, buf), then the names.
LegendBoxWrites(c, l) ==
    [i \in 1 .. l.width |-> W("legend", l.x + i - 1, l.y, "#")]
    \o [i \in 1 .. l.width |-> W("legend", l.x + i - 1, Bottom(l) - 1, "#")]
    \o [i \in 1 .. l.height |-> W("legend", l.x, l.y + i - 1, "#")]
    \o [i \in 1 .. l.height |-> W("legend", Right(l) - 1, l.y + i - 1, "#")]
    \o Flatten([i \in 1 .. Len(c.datasets) |->
           TextRun("legend", l.x + 1, l.y + i, c.datasets[i].name, "n")])

\* Lines 290-303 of Chart::render: the legend box (its border, then the names).
LegendWrites(c, layout) ==
    IF IsSome(layout.legend_area) THEN LegendBoxWrites(c, Unwrap(layout.legend_area))
    ELSE <<>>

\* One title: set_spans(x, y, title, graph_area.right() - x).
TitleRun(t, g, title) ==
    TextRun("titles", t[1], t[2], Min2(SatSub(Right(g), t[1]), title), "t")

\* Lines 305-333 of Chart::render: the axis titles.
TitleWrites(c, layout, g) ==
    (IF IsSome(layout.title_x)
     THEN TitleRun(Unwrap(layout.title_x), g, Unwrap(c.x_axis.title)) ELSE <<>>)
    \o (IF IsSome(layout.title_y)
        THEN TitleRun(Unwrap(layout.title_y), g, Unwrap(c.y_axis.title)) ELSE <<>>)

\* Lines 237-333 of Chart::render, after the labels: the writes in program order.
RenderBodyCornerFirst(c, layout, g) ==
    CornerWrites(layout) \o AxisXWrites(layout, g) \o AxisYWrites(layout, g)
    \o DatasetWrites(c, g) \o LegendWrites(c, layout) \o TitleWrites(c, layout, g)
RenderBody(c, layout, g) ==
    AxisXWrites(layout, g) \o AxisYWrites(layout, g) \o CornerWrites(layout)
    \o DatasetWrites(c, g) \o LegendWrites(c, layout) \o TitleWrites(c, layout, g)

\* The end of a pass whose writes are ws (a write outside the buffer panics).
RenderDone(c, layout, ws) ==
    IF ~InBuffer(ws)
    THEN [status |-> "panic", layout |-> layout, writes |-> <<>>, draws |-> <<>>]
    ELSE [status |-> "done", layout |-> layout, writes |-> ws,
          draws |-> [i \in 1 .. Len(c.datasets) |-> DatasetDraws(c.datasets[i])]]

\* Lines 237-333 of Chart::render: labels first; a panic ends the pass.
RenderGraph(c, layout, xl, yl) ==
    IF yl.panic
    THEN [status |-> "panic", layout |-> layout, writes |-> xl, draws |-> <<>>]
    ELSE RenderDone(c, layout, xl \o yl.writes \o RenderBody(c, layout, layout.graph_area))

\* Lines 231-238 of Chart::render: nothing is drawn without a graph area.
RenderLayout(c, area, layout) ==
    IF layout.graph_area.width < 1 \/ layout.graph_area.height < 1
    THEN [status |-> "done", layout |-> layout, writes |-> <<>>, draws |-> <<>>]
    ELSE RenderGraph(c, layout,
                     render_x_labels(c, layout, area, layout.graph_area),
                     render_y_labels(c, layout, area, layout.graph_area))

\* Chart::render (block: None, so chart_area is area): the outcome of one pass.
RenderResult(c, area) ==
    IF RectArea(area) = 0
    THEN [status |-> "done", layout |-> DefaultLayout, writes |-> <<>>, draws |-> <<>>]
    ELSE RenderLayout(c, area, Layout(c, area))

\* ------------------------------------------------------------------ tables

\* constants::FORCE_MIN_THRESHOLD, the least width of a legend column.
FORCE_MIN_THRESHOLD == 5

\* CPU_LEGEND_HEADER_LENS: "CPU", "Use%".
CPU_LEGEND_HEADER_LENS == <<Max2(FORCE_MIN_THRESHOLD, 3), Max2(FORCE_MIN_THRESHOLD, 4)>>
\* CPU_SELECT_LEGEND_HEADER_LENS: "CPU", "Show (Space)".
CPU_SELECT_LEGEND_HEADER_LENS ==
    <<Max2(FORCE_MIN_THRESHOLD, 3), Max2(FORCE_MIN_THRESHOLD, 12)>>

\* A column of the Column Width Allocator: least width, flex share (in
\* hundredths) and optional fixed width.
Column(min_width, flex, hard_width) ==
    [min_width |-> min_width, flex |-> flex, hard_width |-> hard_width]

\* The columns DiskTable::from_config builds: two flex columns of ratio 0.2
\* (least width: the header), then five hard columns.
DiskColumns ==
    << Column(4, 20, None), Column(5, 20, None), Column(4, 0, Some(5)),
       Column(4, 0, Some(6)), Column(5, 0, Some(6)), Column(3, 0, Some(7)),
       Column(3, 0, Some(7)) >>

\* The two legend columns draw_cpu_legend asks for: ratios 0.5 and 0.5, least
\* widths from the header table of the mode.
LegendColumns(tray) ==
    LET lens == IF tray THEN CPU_SELECT_LEGEND_HEADER_LENS ELSE CPU_LEGEND_HEADER_LENS
    IN  <<Column(lens[1], 50, None), Column(lens[2], 50, None)>>

RECURSIVE SumSeq(_)
SumSeq(s) == IF s = <<>> THEN 0 ELSE Head(s) + SumSeq(Tail(s))

RECURSIVE FitColumns(_, _, _, _, _)
\* One pass over the columns i .. Len(cols) that are hard (hard = TRUE) or
\* flex (hard = FALSE): a column is kept when its hard width, or its least
\* width, fits into what remains; a column that does not fit is dropped and
\* the next one is tried.  Returns the kept indices and the width left.
FitColumns(cols, i, hard, remaining, kept) ==
    IF i > Len(cols) THEN [kept |-> kept, remaining |-> remaining]
    ELSE IF IsSome(cols[i].hard_width) # hard
         THEN FitColumns(cols, i + 1, hard, remaining, kept)
    ELSE LET need == IF hard THEN Unwrap(cols[i].hard_width) ELSE cols[i].min_width
         IN  IF need <= remaining
             THEN FitColumns(cols, i + 1, hard, remaining - need, kept \cup {i})
             ELSE FitColumns(cols, i + 1, hard, remaining, kept)

\* The kept flex columns, in input order, and the share of the left-over
\* width each gets: proportional to its flex ratio, rounded down, the
\* remainder handed out one cell each from the left.
FlexShares(cols, flexKept, leftover) ==
    LET total == SumSeq([k \in 1 .. Len(flexKept) |-> cols[flexKept[k]].flex])
        base == [k \in 1 .. Len(flexKept) |->
                    IF total = 0 THEN 0
                    ELSE (leftover * cols[flexKept[k]].flex) \div total]
    IN  [k \in 1 .. Len(flexKept) |->
            base[k] + (IF total > 0 /\ k <= leftover - SumSeq(base) THEN 1 ELSE 0)]

\* The indices of a set, ascending.
RECURSIVE Ascending(_)
Ascending(S) ==
    IF S = {} THEN <<>>
    ELSE LET m == CHOOSE x \in S : \A y \in S : x <= y
         IN  <<m>> \o Ascending(S \ {m})

\* The widths of the kept columns given both passes' results.
AllocateWidths(cols, h, f) ==
    LET flexKept == Ascending(f.kept)
        shares == FlexShares(cols, flexKept, f.remaining)
        keptAll == Ascending(h.kept \cup f.kept)
        width(i) == IF i \in h.kept THEN Unwrap(cols[i].hard_width)
                    ELSE cols[i].min_width
                         + shares[CHOOSE k \in 1 .. Len(flexKept) : flexKept[k] = i]
    IN  [kept |-> keptAll,
         widths |-> [k \in 1 .. Len(keptAll) |-> width(keptAll[k])],
         count |-> Len(keptAll)]

AllocateFlex(cols, h) ==
    AllocateWidths(cols, h, FitColumns(cols, 1, FALSE, h.remaining, {}))

\* Column Width Allocator (get_variable_intrinsic_widths): the widths of the
\* columns that fit into total_width, and how many they are.
get_variable_intrinsic_widths(total_width, cols) ==
    AllocateFlex(cols, FitColumns(cols, 1, TRUE, total_width, {}))

\* Scroll Position Tracker (get_start_position): the first visible index.
\* On a resize the smallest offset that keeps the selection visible; on Down
\* (Up) the offset moves by the amount the selection passed the last (first)
\* visible row; the result is clamped to [0, max(0, item_count - num_rows)].
get_start_position(item_count, num_rows, direction, previous, current, resized) ==
    LET o1 == IF resized THEN Max2(0, current - num_rows + 1) ELSE previous
        o2 == CASE direction = "Down" /\ current > o1 + num_rows - 1
                      -> o1 + (current - (o1 + num_rows - 1))
                [] direction = "Up" /\ current < o1 -> current
                [] OTHER -> o1
    IN  Min2(o2, Max2(0, item_count - num_rows))

\* Line 123 of draw_cpu_legend: the rows left under border, header and gap.
NumRows(height) == Max2(0, height - 5)

\* Lines 124-136 of draw_cpu_legend: the call of get_start_position.
StartPosition(app, num_rows) ==
    get_start_position(app.cpu_len, num_rows, app.scroll_direction,
            app.previous_scroll_position, app.current_scroll_position, app.is_resized)

\* Line 138 of draw_cpu_legend: the rows of cpu_data from start_position on.
SlicedRows(cpu_len, start_position) ==
    IF start_position <= cpu_len THEN cpu_len - start_position ELSE 0

\* Lines 145 and 153 of draw_cpu_legend: the index into core_show_vec read
\* for row itx of the slice, in tray mode and outside it.
ShowFlagIndex(tray, itx, start_position) ==
    IF tray THEN itx + start_position ELSE itx

\* Lines 169-194 of draw_cpu_legend: the style of row itx.  -1 stands for the
\* selected-row style and the average style; otherwise the index into
\* cpu_colour_styles, itx + start_position % len, where % binds first.
RowStyleIndex(itx, cpu_selected, show_average_cpu, current, start_position, len) ==
    IF cpu_selected /\ itx = current - start_position THEN -1
    ELSE IF show_average_cpu /\ itx = 0 THEN -1
    ELSE itx + (start_position % len)

\* Lines 204-213 of draw_cpu_legend: the widths asked for and their truncation
\* [0..count], which panics when count exceeds the number of widths.
LegendWidthsWider(app, draw_loc) ==
    get_variable_intrinsic_widths(draw_loc.width + 1, LegendColumns(app.is_showing_tray))
LegendWidths(app, draw_loc) ==
    get_variable_intrinsic_widths(draw_loc.width, LegendColumns(app.is_showing_tray))

\* draw_cpu_legend: the outcome of one call, given the start position.
LegendDrawn(app, draw_loc, num_rows, start, res) ==
    [ widget |-> "legend",
      status |-> IF start > app.cpu_len \/ res.count > Len(res.widths)
                 THEN "panic" ELSE "drawn",
      num_rows |-> num_rows,
      start_position |-> start,
      \* line 171-176: current_scroll_position - start_position, unsigned
      sub_underflow |-> app.current_scroll_position < start /\ start < app.cpu_len,
      total_width |-> draw_loc.width,
      cols |-> LegendColumns(app.is_showing_tray),
      kept |-> res.kept,
      widths |-> res.widths,
      count |-> res.count,
      intrinsic_widths |-> SubSeq(res.widths, 1, Min2(res.count, Len(res.widths))) ]

DrawCpuLegend(app, draw_loc) ==
    LegendDrawn(app, draw_loc, NumRows(draw_loc.height),
                StartPosition(app, NumRows(draw_loc.height)),
                LegendWidths(app, draw_loc))

\* DiskTable::draw: the table lays out its columns in the width of area.
DiskDrawn(width, cols, res) ==
    [ widget |-> "disk", status |-> "drawn", num_rows |-> 0, start_position |-> 0,
      sub_underflow |-> FALSE, total_width |-> width, cols |-> cols,
      kept |-> res.kept, widths |-> res.widths, count |-> res.count,
      intrinsic_widths |-> SubSeq(res.widths, 1, Min2(res.count, Len(res.widths))) ]

\* A table of any columns laid out in some width.
TableDrawn(width, cols, res) ==
    [ widget |-> "table", status |-> "drawn", num_rows |-> 0, start_position |-> 0,
      sub_underflow |-> FALSE, total_width |-> width, cols |-> cols,
      kept |-> res.kept, widths |-> res.widths, count |-> res.count,
      intrinsic_widths |-> SubSeq(res.widths, 1, Min2(res.count, Len(res.widths))) ]

NothingDrawn ==
    [ widget |-> "none", status |-> "drawn", num_rows |-> 0, start_position |-> 0,
      sub_underflow |-> FALSE, total_width |-> 0, cols |-> <<>>,
      kept |-> <<>>, widths |-> <<>>, count |-> 0, intrinsic_widths |-> <<>> ]

\* ------------------------------------------------------------------ inputs

XLabelChoices == {None, Some(<<>>), Some(<<1>>), Some(<<2, 1>>), Some(<<1, 1, 1>>)}
YLabelChoices == {None, Some(<<>>), Some(<<1>>), Some(<<1, 2>>)}
TitleChoices == {None, Some(2)}
AxisBounds == <<0, 4>>

Dataset(name, data, graph_type) ==
    [name |-> name, data |-> data, graph_type |-> graph_type]

DatasetChoices ==
    { <<>>,
      <<Dataset(0, << <<0, 0>> >>, "Scatter")>>,
      <<Dataset(1, << <<2, 2>> >>, "Line")>>,
      <<Dataset(1, <<>>, "Line"), Dataset(0, << <<1, 3>>, <<3, 1>> >>, "Scatter")>>,
      <<Dataset(2, << <<0, 0>>, <<4, 4>>, <<5, 1>> >>, "Line"),
        Dataset(1, << <<4, 0>>, <<0, 4>> >>, "Line"),
        Dataset(0, << <<1, 1>> >>, "Line")>> }

ConstraintChoices ==
    { << <<1, 4>>, <<1, 4>> >>, << <<1, 1>>, <<1, 1>> >>,
      << <<3, 4>>, <<1, 1>> >>, << <<1, 1>>, <<3, 4>> >> }

Areas ==
    { Rect(o[1], o[2], w, h) : o \in Origins, w \in 0 .. MaxW, h \in 0 .. MaxH }

\* ------------------------------------------------------------------ state

VARIABLES chart, pc, area, layout, buf, log, draws,
          app, expanded, frame, drawn

chartVars == <<chart, pc, area, layout, buf, log, draws>>
tableVars == <<app, expanded, frame, drawn>>
vars == <<chartVars, tableVars>>

\* A chart as Chart::new leaves it; nothing rendered yet.
ChartInit ==
    /\ chart \in {NewChart(ds) : ds \in DatasetChoices}
    /\ pc = "built"
    /\ area = ZeroRect
    /\ layout = DefaultLayout
    /\ buf = BlankBuf
    /\ log = <<>>
    /\ draws = <<>>

\* The application state the tables read: n CPU rows, the first one selected,
\* nothing scrolled.
NewApp(n) ==
    [ cpu_len |-> n, is_showing_tray |-> FALSE, is_resized |-> FALSE,
      scroll_direction |-> "None", previous_scroll_position |-> 0,
      current_scroll_position |-> 0 ]

\* Columns a table can have: flex columns of two least widths and two ratios,
\* hard columns of two widths.
ColumnChoices ==
    {Column(m, f, None) : m \in {1, 3}, f \in {20, 50}}
        \cup {Column(1, 0, Some(h)) : h \in {2, 4}}

ColumnLists ==
    UNION {[1 .. n -> ColumnChoices] : n \in 0 .. MaxColumns}

\* The terminal shows one expanded widget: the CPU widget, the disk table or a
\* table of other columns, each table built with its columns; nothing is
\* drawn yet.
TablesInit ==
    /\ frame = "clean"
    /\ \/ /\ expanded = "cpu"
          /\ app \in {NewApp(n) : n \in 0 .. MaxCpus}
          /\ drawn = NothingDrawn
       \/ /\ expanded = "disk"
          /\ app = NewApp(0)
          /\ drawn = [NothingDrawn EXCEPT !.cols = DiskColumns]
       \/ /\ expanded = "table"
          /\ app = NewApp(0)
          /\ drawn \in {[NothingDrawn EXCEPT !.cols = cols] : cols \in ColumnLists}

\* Chart::x_axis
x_axis ==
    /\ pc = "built"
    /\ \E l \in XLabelChoices, t \in TitleChoices :
          chart' = [chart EXCEPT !.x_axis = [labels |-> l, title |-> t, bounds |-> AxisBounds]]
    /\ UNCHANGED <<pc, area, layout, buf, log, draws, tableVars>>

\* Chart::y_axis
y_axis ==
    /\ pc = "built"
    /\ \E l \in YLabelChoices, t \in TitleChoices :
          chart' = [chart EXCEPT !.y_axis = [labels |-> l, title |-> t, bounds |-> AxisBounds]]
    /\ UNCHANGED <<pc, area, layout, buf, log, draws, tableVars>>

\* Chart::hidden_legend_constraints
hidden_legend_constraints ==
    /\ pc = "built"
    /\ \E cons \in ConstraintChoices :
          chart' = [chart EXCEPT !.hidden_legend_constraints = cons]
    /\ UNCHANGED <<pc, area, layout, buf, log, draws, tableVars>>

\* Widget::render for Chart: one whole pass over a blank buffer.  The chart
\* is consumed (render takes self).
render ==
    /\ pc = "built"
    /\ \E a \in Areas :
          \E r \in {RenderResult(chart, a)} :
              /\ area' = a
              /\ pc' = r.status
              /\ layout' = r.layout
              /\ log' = r.writes
              /\ buf' = ApplyWrites(BlankBuf, r.writes)
              /\ draws' = r.draws
    /\ UNCHANGED <<chart, tableVars>>

\* A key or mouse event moves the selection down: by one row or to the last.
\* The event loop draws a frame after every event.
ScrollDown ==
    /\ expanded = "cpu" /\ drawn.status # "panic" /\ frame = "clean"
    /\ app.current_scroll_position + 1 < app.cpu_len
    /\ \E to \in {app.current_scroll_position + 1, app.cpu_len - 1} :
          app' = [app EXCEPT !.current_scroll_position = to, !.scroll_direction = "Down"]
    /\ frame' = "dirty"
    /\ UNCHANGED <<expanded, drawn, chartVars>>

\* A key or mouse event moves the selection up: by one row or to the first.
ScrollUp ==
    /\ expanded = "cpu" /\ drawn.status # "panic" /\ frame = "clean"
    /\ app.current_scroll_position > 0
    /\ \E to \in {app.current_scroll_position - 1, 0} :
          app' = [app EXCEPT !.current_scroll_position = to, !.scroll_direction = "Up"]
    /\ frame' = "dirty"
    /\ UNCHANGED <<expanded, drawn, chartVars>>

\* The CPU selection tray is opened or closed.
ToggleTray ==
    /\ expanded = "cpu" /\ drawn.status # "panic" /\ frame = "clean"
    /\ app' = [app EXCEPT !.is_showing_tray = ~app.is_showing_tray]
    /\ frame' = "dirty"
    /\ UNCHANGED <<expanded, drawn, chartVars>>

LegendLocs ==
    {Rect(0, 0, w, h) : w \in 0 .. MaxLegendW, h \in 0 .. MaxLegendH}

\* draw_cpu_legend on some area.  is_resized is set whenever the number of
\* rows the area leaves differs from the last frame's, and is cleared when
\* the frame is done.
draw_cpu_legend ==
    /\ expanded = "cpu" /\ drawn.status # "panic"
    /\ \E loc \in LegendLocs, resized \in BOOLEAN :
          /\ (drawn.widget = "legend" /\ NumRows(loc.height) # drawn.num_rows) => resized
          /\ \E r \in {DrawCpuLegend([app EXCEPT !.is_resized = resized], loc)} :
                /\ drawn' = r
                /\ app' = [app EXCEPT !.previous_scroll_position = r.start_position]
    /\ frame' = "clean"
    /\ UNCHANGED <<expanded, chartVars>>

\* DiskTable::draw on an area of some width.
DiskTable_draw ==
    /\ expanded = "disk"
    /\ \E w \in 0 .. MaxDiskW :
          drawn' = DiskDrawn(w, drawn.cols, get_variable_intrinsic_widths(w, drawn.cols))
    /\ UNCHANGED <<app, expanded, frame, chartVars>>

\* A table of any columns asks the allocator for its widths.
draw_tui_table ==
    /\ expanded = "table"
    /\ \E w \in 0 .. MaxTableW :
          drawn' = TableDrawn(w, drawn.cols, get_variable_intrinsic_widths(w, drawn.cols))
    /\ UNCHANGED <<app, expanded, frame, chartVars>>

\* A chart on its own, the tables idle.
Init ==
    /\ ChartInit
    /\ app = NewApp(0) /\ expanded = "cpu" /\ frame = "clean" /\ drawn = NothingDrawn

Next == x_axis \/ y_axis \/ hidden_legend_constraints \/ render

Spec == Init /\ [][Next]_vars

\* The tables on their own, no chart rendered.
InitTables ==
    /\ TablesInit
    /\ chart = NewChart(<<>>) /\ pc = "built" /\ area = ZeroRect
    /\ layout = DefaultLayout /\ buf = BlankBuf /\ log = <<>> /\ draws = <<>>

NextTables ==
    \/ ScrollDown \/ ScrollUp \/ ToggleTray \/ draw_cpu_legend
    \/ DiskTable_draw \/ draw_tui_table

SpecTables == InitTables /\ [][NextTables]_vars

\* ------------------------------------------------------------------ claims

NonEmpty(r) == r.width > 0 /\ r.height > 0
RowIn(r, y) == Top(r) <= y /\ y < Bottom(r)
ColIn(r, x) == Left(r) <= x /\ x < Right(r)
Inside(inner, outer) ==
    /\ Left(outer) <= Left(inner) /\ Right(inner) <= Right(outer)
    /\ Top(outer) <= Top(inner) /\ Bottom(inner) <= Bottom(outer)
Rendered == pc # "built"

\* C1: for an area of zero width or zero height Chart::layout returns the
\* all-absent layout (no labels, axes, titles or legend, graph_area the zero
\* rectangle) and Chart::render writes no cell of the buffer.
C1_EmptyAreaAllAbsent ==
    (Rendered /\ (area.width = 0 \/ area.height = 0)) =>
        /\ Layout(chart, area) = DefaultLayout
        /\ pc = "done"
        /\ log = <<>>
        /\ buf = BlankBuf

C1_Witness ==
    /\ pc = "done"
    /\ area.width = 0 /\ area.height > 2
    /\ IsSome(chart.x_axis.labels) /\ IsSome(chart.y_axis.labels)
    /\ chart.datasets # <<>>

\* The rows and columns of a layout lie inside bounds, the two rows differ and
\* neither meets the graph area; the tick column does not meet the graph area.
C2_RowsAndTickColumn ==
    LET g == layout.graph_area
    IN  /\ (IsSome(layout.label_x) /\ IsSome(layout.axis_x))
              => Unwrap(layout.label_x) # Unwrap(layout.axis_x)
        /\ \A o \in {layout.label_x, layout.axis_x} :
              IsSome(o) => /\ RowIn(area, Unwrap(o))
                           /\ NonEmpty(g) => ~RowIn(g, Unwrap(o))
        /\ \A o \in {layout.label_y, layout.axis_y} :
              IsSome(o) => ColIn(area, Unwrap(o))
        /\ (IsSome(layout.axis_y) /\ NonEmpty(g)) => ~ColIn(g, Unwrap(layout.axis_y))
        /\ NonEmpty(g) => Inside(g, area)

\* The y-label column differs from the tick column and does not meet the graph area.
C2_LabelColumnApart ==
    LET g == layout.graph_area
    IN  IsSome(layout.label_y) =>
           /\ IsSome(layout.axis_y) => Unwrap(layout.label_y) # Unwrap(layout.axis_y)
           /\ NonEmpty(g) => ~ColIn(g, Unwrap(layout.label_y))

\* C2 as stated: for every non-empty bounds, label_x, axis_x, label_y, axis_y
\* and graph_area are pairwise disjoint and each lies inside bounds.
C2_Original ==
    (Rendered /\ NonEmpty(area)) => (C2_RowsAndTickColumn /\ C2_LabelColumnApart)

\* C2 (amended): as stated, except that the y-label column is apart from the
\* tick column and the graph area only when the reserved label strip has
\* width L >= 1; with L = 0 label_y is the left column of bounds, which is
\* then the tick column, or the first graph column when there is no tick column.
C2_DisjointInsideBounds ==
    (Rendered /\ NonEmpty(area)) =>
        /\ C2_RowsAndTickColumn
        /\ max_width_of_labels_left_of_y_axis(chart, area) >= 1 => C2_LabelColumnApart
        /\ (max_width_of_labels_left_of_y_axis(chart, area) = 0 /\ IsSome(layout.label_y))
              => /\ Unwrap(layout.label_y) = Left(area)
                 /\ IsSome(layout.axis_y) => Unwrap(layout.axis_y) = Left(area)
                 /\ (~IsSome(layout.axis_y) /\ NonEmpty(layout.graph_area))
                       => Left(layout.graph_area) = Left(area)

C2_Witness ==
    /\ pc = "done"
    /\ IsSome(layout.label_x) /\ IsSome(layout.axis_x)
    /\ IsSome(layout.label_y) /\ IsSome(layout.axis_y)
    /\ NonEmpty(layout.graph_area)
    /\ max_width_of_labels_left_of_y_axis(chart, area) >= 2

\* The width of the widest dataset name (0 without datasets).
C3_NameWidth == MaxOfSeq([i \in 1 .. Len(chart.datasets) |-> chart.datasets[i].name])

\* The legend test of C3 on a graph area of size (w, h), ratios rounded down.
C3_Fits(w, h) ==
    LET cw == chart.hidden_legend_constraints[1]
        ch == chart.hidden_legend_constraints[2]
    IN  /\ C3_NameWidth > 0
        /\ C3_NameWidth + 2 < (cw[1] * w) \div cw[2]
        /\ Len(chart.datasets) + 2 < (ch[1] * h) \div ch[2]

MaxGrow == 3
C4_LegendMonotonic ==
    (Rendered /\ IsSome(layout.legend_area)) =>
        \A dw \in 0 .. MaxGrow, dh \in 0 .. MaxGrow :
            LET g == layout.graph_area
            IN  IsSome(LegendArea(chart.datasets, chart.hidden_legend_constraints,
                                  Rect(g.x, g.y, g.width + dw, g.height + dh)))

C4_Witness ==
    /\ pc = "done"
    /\ IsSome(layout.legend_area)
    /\ layout.graph_area.width < MaxW
    /\ ~IsSome(LegendArea(chart.datasets, chart.hidden_legend_constraints,
                          Rect(layout.graph_area.x, layout.graph_area.y,
                               layout.graph_area.width - 1, layout.graph_area.height)))

\* C5: Chart::render never reaches a fatal state (division by zero, unsigned
\* underflow, out-of-range cell access), whatever the bounds and whatever the
\* length of the x and y label lists, 0 and 1 included.
C5_NeverFatal == pc # "panic"

\* C6: with labels on both axes, bounds.height >= 5 and bounds.width >= 2 the
\* layout reserves one row for the x labels, one for the x tick line, a
\* y-label strip of width L = min(width / 3, max(longest y label, first x
\* label)) and one y tick column: graph_area has height h - 2 and width
\* w - (L + 1), its top is bounds' top and its right edge bounds' right edge
\* (bounds 40x10, x labels "0","50","100", y labels "0%","100%": 35 x 8).
C6_Strip ==
    LET xl == Unwrap(chart.x_axis.labels)
        yl == Unwrap(chart.y_axis.labels)
        longest == IF yl = <<>> THEN 0
                   ELSE CHOOSE m \in {yl[i] : i \in 1 .. Len(yl)} :
                           \A i \in 1 .. Len(yl) : yl[i] <= m
        first == IF xl = <<>> THEN 0 ELSE xl[1]
        want == IF longest >= first THEN longest ELSE first
    IN  IF area.width \div 3 <= want THEN area.width \div 3 ELSE want
C6_GraphAreaSize ==
    /\ (/\ Rendered
        /\ IsSome(chart.x_axis.labels) /\ IsSome(chart.y_axis.labels)
        /\ area.height >= 5 /\ area.width >= 2) =>
          LET g == layout.graph_area
          IN  /\ layout.label_x = Some(Bottom(area) - 1)
              /\ layout.axis_x = Some(Bottom(area) - 2)
              /\ layout.label_y = Some(Left(area))
              /\ layout.axis_y = Some(Left(area) + C6_Strip)
              /\ g.height = area.height - 2
              /\ g.width = area.width - (C6_Strip + 1)
              /\ Top(g) = Top(area)
              /\ Right(g) = Right(area)
    /\ Layout([NewChart(<<>>) EXCEPT
                  !.x_axis = [labels |-> Some(<<1, 2, 3>>), title |-> None,
                              bounds |-> AxisBounds],
                  !.y_axis = [labels |-> Some(<<2, 4>>), title |-> None,
                              bounds |-> AxisBounds]],
              Rect(0, 0, 40, 10)).graph_area = Rect(5, 0, 35, 8)

C6_Witness ==
    /\ pc = "done"
    /\ IsSome(chart.x_axis.labels) /\ IsSome(chart.y_axis.labels)
    /\ area.height >= 5 /\ area.width = MaxW
    /\ C6_Strip = 2
    /\ layout.graph_area.width = area.width - 3

\* The place of a render phase in the order C9 states.
C9_Rank(ph) ==
    CASE ph = "labels" -> 1
      [] ph \in {"axis_x", "axis_y"} -> 2
      [] ph = "corner" -> 3
      [] ph = "datasets" -> 4
      [] ph = "legend" -> 5
      [] ph = "titles" -> 6

\* The writes of a pass come in the order labels, tick lines, corner glyph,
\* datasets (in sequence order), legend, titles.
C9_Ordered ==
    \A i \in 1 .. Len(log) - 1 :
        /\ C9_Rank(log[i].ph) <= C9_Rank(log[i + 1].ph)
        /\ (log[i].ph = "datasets" /\ log[i + 1].ph = "datasets")
              => log[i].ds <= log[i + 1].ds

C9_CornerHeld ==
    buf[<<Unwrap(layout.axis_y), Unwrap(layout.axis_x)>>] = "L"

C10_PointsAndSegments ==
    (pc = "done" /\ NonEmpty(layout.graph_area)) =>
        /\ Len(draws) = Len(chart.datasets)
        /\ \A i \in 1 .. Len(chart.datasets) :
              LET d == chart.datasets[i]
                  n == Len(d.data)
              IN  n >= 1 =>
                    /\ draws[i][1].shape = "Points"
                    /\ Len(draws[i][1].coords) = n
                    /\ \A k \in 1 .. n : draws[i][1].coords[k] = d.data[k]
                    /\ \A k \in 2 .. Len(draws[i]) : draws[i][k].shape = "Line"
                    /\ d.graph_type = "Scatter" => Len(draws[i]) = 1
                    /\ d.graph_type = "Line" =>
                          /\ Len(draws[i]) = 1 + (n - 1)
                          /\ \A k \in 1 .. n - 1 :
                                /\ draws[i][k + 1].p1 = d.data[k]
                                /\ draws[i][k + 1].p2 = d.data[k + 1]
                    /\ n = 1 =>
                          /\ DatasetDraws([d EXCEPT !.graph_type = "Line"])
                                = DatasetDraws([d EXCEPT !.graph_type = "Scatter"])
                          /\ DrawsWrites(chart, layout.graph_area, i, draws[i])
                                = PointWrites(i, GetPoint(chart, layout.graph_area, d.data[1]))

C10_Witness ==
    /\ pc = "done"
    /\ \E i \in 1 .. Len(draws) :
          /\ chart.datasets[i].graph_type = "Line"
          /\ Len(chart.datasets[i].data) = 3
          /\ Len(draws[i]) = 3
    /\ \E i \in 1 .. Len(draws) :
          /\ chart.datasets[i].graph_type = "Line"
          /\ Len(chart.datasets[i].data) = 1
          /\ \E k \in 1 .. Len(log) : log[k].ph = "datasets"

\* ---- C7

\* The legend has just been drawn: no event since the last draw_cpu_legend.
LegendShown == expanded = "cpu" /\ drawn.widget = "legend" /\ frame = "clean"

C7_OffsetInRange ==
    /\ 0 <= drawn.start_position
    /\ drawn.start_position <= Max2(0, app.cpu_len - drawn.num_rows)

C7_SelectedInWindow ==
    app.current_scroll_position < app.cpu_len =>
        /\ drawn.start_position <= app.current_scroll_position
        /\ app.current_scroll_position <= drawn.start_position + drawn.num_rows - 1

\* C7: after every draw_cpu_legend, whatever the scroll direction, resize flag,
\* number of items and number of visible rows, the start offset is in
\* [0, max(0, item_count - visible_rows)], the selected index (when it is an
\* item) lies in [offset, offset + visible_rows - 1], the slice at the offset
\* is in range and selected - offset does not underflow.
C7_TrackerKeepsSelectionVisible ==
    LegendShown =>
        /\ C7_OffsetInRange
        /\ C7_SelectedInWindow
        /\ drawn.status # "panic"
        /\ ~drawn.sub_underflow

\* ---- C8

C8_DroppedColumn ==
    /\ drawn.widget \in {"disk", "table"}
    /\ \E k \in 1 .. Len(drawn.kept) : drawn.kept[k] > k

\* ---- C11

\* title_y, when present, is the top-left cell of graph_area.
C11_AtTopLeft ==
    IsSome(layout.title_y) =>
        Unwrap(layout.title_y) = <<Left(layout.graph_area), Top(layout.graph_area)>>

\* C11 as stated: title_y is present if and only if the y axis has a title
\* whose width is less than graph_area.width and graph_area.height > 2 (the
\* test of the x-axis title), and it is then the top-left cell of graph_area.
C11_Original ==
    (pc = "done" /\ NonEmpty(area)) =>
        /\ IsSome(layout.title_y)
              <=> /\ IsSome(chart.y_axis.title)
                  /\ Unwrap(chart.y_axis.title) < layout.graph_area.width
                  /\ layout.graph_area.height > 2
        /\ C11_AtTopLeft

\* C11 (amended): title_y is present if and only if the y axis has a title
\* whose width plus one is less than graph_area.width and
\* graph_area.height > 2, and it is then the top-left cell of graph_area.
C11_TitleYPlacement ==
    (pc = "done" /\ NonEmpty(area)) =>
        /\ IsSome(layout.title_y)
              <=> /\ IsSome(chart.y_axis.title)
                  /\ Unwrap(chart.y_axis.title) + 1 < layout.graph_area.width
                  /\ layout.graph_area.height > 2
        /\ C11_AtTopLeft

\* A titled y axis on a graph area one column wider than the title: the title
\* is left out; and the layout is one where labels moved the graph area.
C11_Witness ==
    /\ pc = "done"
    /\ IsSome(chart.y_axis.title)
    /\ layout.graph_area.width = Unwrap(chart.y_axis.title) + 1
    /\ layout.graph_area.height > 2
    /\ ~IsSome(layout.title_y)
    /\ Left(layout.graph_area) > Left(area)

\* ---- C12

\* C12: title_x is present if and only if the x axis has a title whose width
\* w is less than graph_area.width and graph_area.height > 2; it is then on
\* the bottom row of graph_area and starts at graph_area.right - w, so that
\* it lies inside graph_area, and every title cell written lies inside
\* graph_area; with an empty graph_area there is no title.
C12_TitleXPlacement ==
    (pc = "done" /\ NonEmpty(area)) =>
        LET g == layout.graph_area
        IN  /\ IsSome(layout.title_x)
                  <=> /\ IsSome(chart.x_axis.title)
                      /\ Unwrap(chart.x_axis.title) < g.width
                      /\ g.height > 2
            /\ IsSome(layout.title_x) =>
                  /\ Unwrap(layout.title_x)
                        = <<Right(g) - Unwrap(chart.x_axis.title), Bottom(g) - 1>>
                  /\ Left(g) <= Unwrap(layout.title_x)[1]
                  /\ Unwrap(layout.title_x)[1] + Unwrap(chart.x_axis.title) = Right(g)
                  /\ \E i \in 1 .. Len(log) :
                        /\ log[i].ph = "titles"
                        /\ log[i].x = Right(g) - 1 /\ log[i].y = Bottom(g) - 1
            /\ \A i \in 1 .. Len(log) :
                  log[i].ph = "titles" => (ColIn(g, log[i].x) /\ RowIn(g, log[i].y))
            /\ ~NonEmpty(g) => (~IsSome(layout.title_x) /\ ~IsSome(layout.title_y))

\* The x title is placed on a graph area just one column wider than it, below
\* the top row, on an area away from the origin.
C12_Witness ==
    /\ pc = "done"
    /\ IsSome(layout.title_x)
    /\ layout.graph_area.width = Unwrap(chart.x_axis.title) + 1
    /\ IsSome(layout.axis_x)
    /\ Top(area) > 0 /\ Left(layout.graph_area) > 0

\* ---- C13

\* A layout moved by (dx, dy): rows move by dy, columns by dx, cells and
\* rectangles by both; an absent element and the empty graph area stay.
C13_MoveRow(o, dy) == IF IsSome(o) THEN Some(Unwrap(o) + dy) ELSE None
C13_MoveCol(o, dx) == IF IsSome(o) THEN Some(Unwrap(o) + dx) ELSE None
C13_MoveCell(o, dx, dy) ==
    IF IsSome(o) THEN Some(<<Unwrap(o)[1] + dx, Unwrap(o)[2] + dy>>) ELSE None
C13_MoveRect(r, dx, dy) == Rect(r.x + dx, r.y + dy, r.width, r.height)
C13_Moved(l, dx, dy) ==
    [ title_x |-> C13_MoveCell(l.title_x, dx, dy),
      title_y |-> C13_MoveCell(l.title_y, dx, dy),
      label_x |-> C13_MoveRow(l.label_x, dy),
      label_y |-> C13_MoveCol(l.label_y, dx),
      axis_x |-> C13_MoveRow(l.axis_x, dy),
      axis_y |-> C13_MoveCol(l.axis_y, dx),
      legend_area |-> IF IsSome(l.legend_area)
                      THEN Some(C13_MoveRect(Unwrap(l.legend_area), dx, dy)) ELSE None,
      graph_area |-> IF NonEmpty(l.graph_area)
                     THEN C13_MoveRect(l.graph_area, dx, dy) ELSE l.graph_area ]

\* C13: for fixed axes, datasets and constraints, the layout of bounds moved
\* by (dx, dy) is the layout of bounds with every present element moved by
\* (dx, dy): presence and sizes are the same, and whether graph_area is
\* empty does not depend on where bounds is.
C13_TranslationInvariant ==
    (pc = "done" /\ NonEmpty(area)) =>
        \A o \in Origins :
            Layout(chart, Rect(o[1], o[2], area.width, area.height))
                = C13_Moved(layout, o[1] - area.x, o[2] - area.y)

\* Moving bounds sideways only: the layout moves with it.
C13_SidewaysInvariant ==
    (pc = "done" /\ NonEmpty(area)) =>
        \A dx \in 0 .. 2 :
            Layout(chart, Rect(area.x + dx, area.y, area.width, area.height))
                = C13_Moved(layout, dx, 0)

\* ---- C14

\* The rows of the legend that are displayed: the rows of the slice that fit
\* into num_rows.
C14_Displayed == Min2(SlicedRows(app.cpu_len, drawn.start_position), drawn.num_rows)

\* For every displayed row, whichever widget is selected, with or without the
\* average row and for every length of cpu_colour_styles, the colour index is
\* less than the length.
C14_ColourInBounds ==
    \A itx \in 0 .. C14_Displayed - 1 :
        \A len \in 1 .. MaxStyles, cpu_selected \in BOOLEAN, show_average_cpu \in BOOLEAN :
            RowStyleIndex(itx, cpu_selected, show_average_cpu,
                          app.current_scroll_position, drawn.start_position, len) < len

\* For every displayed row the flag read from core_show_vec is the flag of
\* the row's absolute CPU index.
C14_FlagOfAbsoluteIndex ==
    \A itx \in 0 .. C14_Displayed - 1 :
        ShowFlagIndex(app.is_showing_tray, itx, drawn.start_position)
            = itx + drawn.start_position

\* C14: after draw_cpu_legend, for every number of CPU rows, every start
\* offset and every non-empty colour style list, the index that picks a
\* displayed row's colour style is less than the length of
\* cpu_colour_styles, and the core_show_vec flag looked up for a displayed
\* row is that of index row + start offset, in tray and non-tray mode.
C14_RowIndices ==
    (LegendShown /\ drawn.status = "drawn") =>
        (C14_ColourInBounds /\ C14_FlagOfAbsoluteIndex)

C14_ColourOnly == (LegendShown /\ drawn.status = "drawn") => C14_ColourInBounds
C14_FlagOnly == (LegendShown /\ drawn.status = "drawn") => C14_FlagOfAbsoluteIndex
C14_TrayFlag ==
    (LegendShown /\ drawn.status = "drawn" /\ app.is_showing_tray)
        => C14_FlagOfAbsoluteIndex

====
